---------------------------- MODULE Spec2Model ----------------------------
(***************************************************************************)
(* Model of svillegasz/rama-judicial.                                      *)
(*                                                                         *)
(*  - make_api_request_with_retry (src/rama/tasks/api_client.py): the      *)
(*    retry loop, one action per step of the loop body.  time.sleep and    *)
(*    request_func are observed through the event log `trace`.             *)
(*  - revisar_procesos (src/rama/workflows/procesos.py): the batch         *)
(*    driver, one action per step of a case's cycle and of the report      *)
(*    phase.                                                               *)
(*                                                                         *)
(* A run exercises one entry point; the other one stays idle.              *)
(***************************************************************************)
EXTENDS Integers, Sequences, FiniteSets, TLC

VARIABLES
    \* ---- make_api_request_with_retry ----
    rpc,             \* position in the function
    max_retries,     \* parameter max_retries
    retry_count,     \* local retry_count
    last_exception,  \* local last_exception
    response,        \* local response (value of the last request_func())
    pending,         \* exception in flight inside the try block
    calls,           \* number of calls of request_func so far
    trace,           \* log of the calls of request_func and of time.sleep
    outcome,         \* how the function ended: returned value or raised error
    \* ---- revisar_procesos ----
    fpc,                   \* position in the flow
    now,                   \* datetime.now() of the run, in days
    procesos_df,           \* rows of the Procesos sheet
    entidades_df,          \* rows of the Entidades sheet
    idx,                   \* position of the for loop in procesos_df
    soup,                  \* local soup: the page last parsed
    payload,               \* local payload
    data,                  \* local data
    validation,            \* locals is_valid, messages
    cookie,                \* RAMA_HEADERS['Cookie'] (module-level dictionary)
    session_id,            \* local session_id of the last fetch_html_content
    procesos_to_notify,
    procesos_to_impulsar,
    procesos_to_review,
    summary_df,            \* local summary_df
    sheet,                 \* content of the Reporte sheet
    sheet_writes,          \* calls of update_spreadsheet_data
    emails,                \* calls of send_email_notification
    flog,                  \* log of the HTTP requests of the flow
    flow_result,           \* value returned or error raised by the flow
    \* ---- get_latest_actuacion ----
    apc,                   \* position in get_latest_actuacion
    lookup_data,           \* response.json() of the process lookup
    lookup,                \* outcome of get_proceso_by_radicacion
    actuaciones,           \* local actuaciones
    alog,                  \* log of the executor calls and of random_delay
    api_result,            \* outcome of get_latest_actuacion
    \* ---- check_fecha, check_fecha_older_than_months ----
    date_value,            \* the timestamp passed to the two checks
    date_now,              \* datetime.now() of the calls, a day number
    date_days_range,       \* argument days_range of check_fecha
    date_months,           \* argument months of check_fecha_older_than_months
    recent,                \* outcome of check_fecha, <<>> before the call
    older,                 \* outcome of check_fecha_older_than_months
    \* ---- extraer_entidades ----
    epc,                   \* position in extraer_entidades
    ciudades,              \* the (text, value) pairs of the city options
    ciudad_idx,            \* position of the for loop in ciudades
    all_entidades_list,    \* entities collected so far
    entidades_sheet,       \* the Entidades sheet
    elog,                  \* the POSTs sent, each with what it answered
    entidades_result       \* value returned or error raised by the flow

retryVars == <<rpc, max_retries, retry_count, last_exception, response,
               pending, calls, trace, outcome>>

caseVars == <<soup, payload, data, validation>>
cookieVars == <<cookie, session_id>>
bucketVars == <<procesos_to_notify, procesos_to_impulsar, procesos_to_review>>
reportVars == <<summary_df, sheet, sheet_writes, emails>>
inputVars == <<now, procesos_df, entidades_df>>

flowVars == <<fpc, inputVars, idx, caseVars, cookieVars, bucketVars, reportVars,
              flog, flow_result>>

apiVars == <<apc, lookup_data, lookup, actuaciones, alog, api_result>>

dateVars ==
    <<date_value, date_now, date_days_range, date_months, recent, older>>

entVars == <<epc, ciudades, ciudad_idx, all_entidades_list, entidades_sheet,
             elog, entidades_result>>

vars == <<retryVars, flowVars, apiVars, dateVars, entVars>>

-----------------------------------------------------------------------------
(* Bounds of the model *)

\* largest retry budget explored
MaxRetries == 4

\* largest number of rows of the Procesos sheet
MaxCases == 2

-----------------------------------------------------------------------------
(* Constants of api_client.py *)

MAX_RETRIES == 3
RETRY_BACKOFF_FIRST == 30
RETRY_BACKOFF_SUBSEQUENT == 60
RATE_LIMIT_COOLDOWN == 60

\* http.HTTPStatus members used by the executor
FORBIDDEN == 403
NOT_FOUND == 404
INTERNAL_SERVER_ERROR == 500

\* Status codes request_func may answer with (representatives of each class)
Statuses == {200, 204, 304, 400, 401, 403, 404, 500, 503}

\* requests.exceptions.RequestException subclasses request_func may raise
NetworkErrors == {"ConnectionError", "Timeout"}

\* An exception object; str(e) is modelled by the object itself.
Exc(type, code) == [type |-> type, code |-> code]
None == Exc("None", 0)

NoResponse == [status |-> 0, id |-> 0]

\* An error raised out of the function: the message template, its
\* numeric arguments and the embedded str(e).
Raised(text, code, n, cause) ==
    [kind |-> "raise", text |-> text, code |-> code, n |-> n,
     cause |-> cause, response |-> NoResponse]
Returned(r) ==
    [kind |-> "return", text |-> "", code |-> 0, n |-> 0,
     cause |-> None, response |-> r]
Running ==
    [kind |-> "none", text |-> "", code |-> 0, n |-> 0,
     cause |-> None, response |-> NoResponse]

\* Events of the log: time.sleep(t); request_func() answering with status s
\* (err = "") or raising the RequestException err (arg = 0).
SleepEv(t) == [ev |-> "sleep", arg |-> t, err |-> ""]
RequestEv(s, e) == [ev |-> "request", arg |-> s, err |-> e]

-----------------------------------------------------------------------------
(* rama/utils/constants.py: field names and the date checks *)

FECHA_ACTUACION_FIELD == "fecha_actuacion"
ACTUACION_FIELD == "actuacion"

\* A field value (a string).  kind "empty": '' or None; "malformed": not an
\* ISO-8601 timestamp; "iso": the timestamp of day `day`, written with a
\* fractional-seconds part (frac) and with the zone suffix `zone`.
Value(kind, day, frac, zone) ==
    [kind |-> kind, day |-> day, frac |-> frac, zone |-> zone]
Empty == Value("empty", 0, FALSE, "")
Malformed == Value("malformed", 0, FALSE, "")
Iso(day) == Value("iso", day, FALSE, "")
IsoZ(day) == Value("iso", day, FALSE, "Z")
IsoFracZ(day) == Value("iso", day, TRUE, "Z")

\* value.replace('Z', '+00:00').split('.')[0]: the zone marker is
\* rewritten, then everything from the first '.' on is cut off (the
\* fraction and whatever follows it, the zone included).
Normalize(v) ==
    LET replaced == [v EXCEPT !.zone = IF @ = "Z" THEN "+00:00" ELSE @]
    IN  IF replaced.frac
          THEN [replaced EXCEPT !.frac = FALSE, !.zone = ""]
          ELSE replaced

\* datetime.fromisoformat: ValueError for a malformed string, otherwise a
\* datetime that is aware exactly when the string carries an offset.
FromIsoFormat(v) ==
    [ok |-> v.kind = "iso", day |-> v.day, aware |-> v.zone # ""]

\* Result of a call that returns a boolean or raises.
Ret(b) == [raised |-> FALSE, val |-> b]
Raise == [raised |-> TRUE, val |-> FALSE]

\* check_fecha with the comparison of line 141 turned round
check_fecha_Reversed(value, days_range, t) ==
    IF value.kind = "empty" THEN Ret(FALSE)
    ELSE LET date == FromIsoFormat(Normalize(value))
         IN  IF ~date.ok \/ date.aware THEN Raise
             ELSE Ret(date.day <= t - days_range)

\* constants.py lines 127-143.  Comparing an aware datetime with the naive
\* datetime.now() raises TypeError inside the try block.
check_fecha(value, days_range, t) ==
    IF value.kind = "empty" THEN Ret(FALSE)
    ELSE LET date == FromIsoFormat(Normalize(value))
         IN  IF ~date.ok \/ date.aware THEN Raise
             ELSE Ret(date.day >= t - days_range)

check_fecha_older_than_months_NoThirty(value, months, t) ==
    IF value.kind = "empty" THEN Ret(FALSE)
    ELSE LET date == FromIsoFormat(Normalize(value))
         IN  IF ~date.ok \/ date.aware THEN Raise
             ELSE Ret(date.day < t - months)

\* constants.py lines 146-162
check_fecha_older_than_months(value, months, t) ==
    IF value.kind = "empty" THEN Ret(FALSE)
    ELSE LET date == FromIsoFormat(Normalize(value))
         IN  IF ~date.ok \/ date.aware THEN Raise
             ELSE Ret(date.day < t - months * 30)

-----------------------------------------------------------------------------
(* Values the flow works on *)

RAMA_URL == "https://procesos.ramajudicial.gov.co/procesoscs/ConsultaJusticias21.aspx"
SESSION_ID_FIELD == "session_id"

\* constants.py line 70: the Cookie of RAMA_HEADERS as the module is loaded
InitialCookie == "oyauyt5wodatpi4yv3cqkr34"

\* constants.py lines 50-54: the names of the payload selectors
PAYLOAD_SELECTORS ==
    {"manager_script_hidden_field", "proceso_id", SESSION_ID_FIELD}

\* imported by procesos.py line 16; selects the fields of a docket action
DATA_SELECTORS == {FECHA_ACTUACION_FIELD, ACTUACION_FIELD}

\* imported by procesos.py line 28; the default days_range of check_fecha
\* is 7 (constants.py line 127)
VALIDATION_RULES == {FECHA_ACTUACION_FIELD}
DAYS_RANGE == 7

SomeText == Malformed

\* A parsed page: the elements its selectors match, with their values.
FormPage == [n \in PAYLOAD_SELECTORS |-> SomeText]
BlankPage == [n \in {} |-> SomeText]
ResultPage(v) ==
    [n \in DATA_SELECTORS |-> IF n = FECHA_ACTUACION_FIELD THEN v ELSE SomeText]

\* Dates of the latest action the upstream may show (days, today = 0)
FechaValues ==
    {Empty, Malformed, Iso(-1), Iso(-7), Iso(-30), Iso(-180), Iso(-181),
     IsoZ(-1), IsoFracZ(-1)}

\* Rows of the Procesos sheet and of the Entidades sheet
Rows ==
    { [radicado |-> "r1", entidad |-> "e1"],
      [radicado |-> "r2", entidad |-> "e1"],
      [radicado |-> "r3", entidad |-> "e9"] }
EntidadesRows == << [entidad |-> "e1", valor |-> "v1"] >>

SeqsUpTo(S, n) == UNION { [1..k -> S] : k \in 0..n }

\* Session ids a page may set ("": no ASP.NET_SessionId cookie)
SessionCookies == {"", "s1"}

\* An error: the text of str(e), and the field value quoted in it (if any)
Err(text, value) == [text |-> text, value |-> value]
NoErr == Err(<<>>, Empty)

NoPayload == [session_id |-> Empty, ciudad |-> <<>>, proceso |-> "",
              manager_script |-> [prefix |-> "", session_id |-> Empty],
              entidad |-> ""]
NoValidation == [is_valid |-> FALSE, messages |-> <<>>]
NoSummary == [notify |-> <<>>, impulsar |-> <<>>, review |-> <<>>]

\* The Reporte sheet: what it holds
PriorSheet == [state |-> "prior", content |-> NoSummary]
ClearedSheet == [state |-> "cleared", content |-> NoSummary]
WrittenSheet(df) == [state |-> "written", content |-> df]

\* How the flow ended
FlowRunning == [kind |-> "none", val |-> ""]
FlowReturned(v) == [kind |-> "return", val |-> v]
FlowRaised(e) == [kind |-> "raise", val |-> e]

FlowIdle ==
    /\ fpc = "idle"
    /\ now = 0
    /\ procesos_df = <<>>
    /\ entidades_df = <<>>
    /\ idx = 0
    /\ soup = BlankPage
    /\ payload = NoPayload
    /\ data = BlankPage
    /\ validation = NoValidation
    /\ cookie = InitialCookie
    /\ session_id = ""
    /\ procesos_to_notify = <<>>
    /\ procesos_to_impulsar = <<>>
    /\ procesos_to_review = <<>>
    /\ summary_df = NoSummary
    /\ sheet = PriorSheet
    /\ sheet_writes = 0
    /\ emails = <<>>
    /\ flog = <<>>
    /\ flow_result = FlowRunning

\* An outcome of a function of api_client.py: the value returned, or the
\* text of the Exception raised (the nested messages, outermost first)
ApiNone == [kind |-> "none", text |-> <<>>, value |-> <<>>]
ApiReturn(v) == [kind |-> "return", text |-> <<>>, value |-> <<v>>]
ApiRaise(text) == [kind |-> "raise", text |-> text, value |-> <<>>]

NoLookupData == [has_procesos |-> FALSE, procesos |-> <<>>]

ApiIdle ==
    /\ apc = "idle"
    /\ lookup_data = NoLookupData
    /\ lookup = ApiNone
    /\ actuaciones = <<>>
    /\ alog = <<>>
    /\ api_result = ApiNone

\* The Entidades sheet: what it holds (rows of entities once written)
EntPriorSheet == [state |-> "prior", rows |-> <<>>]
EntClearedSheet == [state |-> "cleared", rows |-> <<>>]
EntWrittenSheet(rows) == [state |-> "written", rows |-> rows]

\* How extraer_entidades ended
EntRunning == [kind |-> "none", text |-> "", rows |-> <<>>]
EntReturned(rows) == [kind |-> "return", text |-> "", rows |-> rows]
EntRaised(text) == [kind |-> "raise", text |-> text, rows |-> <<>>]

EntIdle ==
    /\ epc = "idle"
    /\ ciudades = <<>>
    /\ ciudad_idx = 0
    /\ all_entidades_list = <<>>
    /\ entidades_sheet = EntPriorSheet
    /\ elog = <<>>
    /\ entidades_result = EntRunning

DatesIdle ==
    /\ date_value = Empty
    /\ date_now = 0
    /\ date_days_range = 0
    /\ date_months = 0
    /\ recent = <<>>
    /\ older = <<>>

RetryIdle ==
    /\ rpc = "idle"
    /\ max_retries = MAX_RETRIES
    /\ retry_count = 0
    /\ last_exception = None
    /\ response = NoResponse
    /\ pending = None
    /\ calls = 0
    /\ trace = <<>>
    /\ outcome = Running

\* ---------------------------------------------------------------------
\* api_client.py: select_most_recent_proceso, get_proceso_by_radicacion,
\* get_proceso_actuaciones, get_latest_actuacion
\* ---------------------------------------------------------------------

\* Longest 'procesos' list and longest 'actuaciones' list of a response
MaxCandidates == 3
MaxActuaciones == 2

\* A candidate of the lookup: its idProceso and its fechaUltimaActuacion
\* (Empty stands for a missing, None or '' field).
Candidate(id, fecha) == [idProceso |-> id, fechaUltimaActuacion |-> fecha]

\* Timestamps of the candidates, in days counted from 2024-01-01
\* (2024-06-01 is day 152)
CandidateFechas ==
    {Empty, Malformed, Iso(0), Iso(152), IsoZ(0), IsoZ(152), IsoFracZ(152)}

\* The lists a lookup can return: the i-th candidate has idProceso i
CandidateLists ==
    UNION { { [i \in 1..k |-> Candidate(i, f[i])] : f \in [1..k -> CandidateFechas] }
            : k \in 0..MaxCandidates }

\* The key of max(): fromisoformat of the normalised timestamp
FechaKey(p) == FromIsoFormat(Normalize(p.fechaUltimaActuacion))

\* max(procesos_with_fecha, key=...) of lines 158-161, as Python computes it:
\* left to right, the key of an item is computed before it is compared with
\* the best so far, a later item replaces the best only when its key is
\* strictly greater.  fromisoformat raises ValueError on a malformed string;
\* comparing an aware with a naive datetime raises TypeError.
RECURSIVE MaxByFecha(_, _, _)
MaxByFecha(ps, i, best) ==
    IF i > Len(ps) THEN ApiReturn(best)
    ELSE LET k == FechaKey(ps[i])
             b == FechaKey(best)
         IN  IF ~k.ok THEN ApiRaise(<<"ValueError">>)
             ELSE IF k.aware # b.aware THEN ApiRaise(<<"TypeError">>)
             ELSE MaxByFecha(ps, i + 1, IF k.day > b.day THEN ps[i] ELSE best)

\* api_client.py lines 138-165
select_most_recent_proceso(procesos) ==
    LET procesos_with_fecha ==
            SelectSeq(procesos, LAMBDA p : p.fechaUltimaActuacion.kind # "empty")
    IN  IF Len(procesos) = 1 THEN ApiReturn(procesos[1])
        ELSE IF procesos_with_fecha = <<>> THEN ApiReturn(procesos[1])
        ELSE IF ~FechaKey(procesos_with_fecha[1]).ok
               THEN ApiRaise(<<"ValueError">>)
        ELSE MaxByFecha(procesos_with_fecha, 2, procesos_with_fecha[1])

-----------------------------------------------------------------------------
(* make_api_request_with_retry *)


\* requests.Response.raise_for_status: HTTPError for 4xx and 5xx only
RaisesForStatus(status) == status >= 400 /\ status < 600

BackoffTime_AlwaysFirst(rc) == RETRY_BACKOFF_FIRST

\* line 96: backoff_time
BackoffTime(rc) ==
    IF rc > 1 THEN RETRY_BACKOFF_SUBSEQUENT ELSE RETRY_BACKOFF_FIRST

InitRetry ==
    /\ EntIdle
    /\ DatesIdle
    /\ FlowIdle
    /\ ApiIdle
    /\ rpc = "while"
    /\ max_retries \in -1..MaxRetries
    /\ retry_count = 0
    /\ last_exception = None
    /\ response = NoResponse
    /\ pending = None
    /\ calls = 0
    /\ trace = <<>>
    /\ outcome = Running

\* line 92 and, when the loop ends, line 135
LoopTest ==
    /\ rpc = "while"
    /\ UNCHANGED <<flowVars, apiVars, dateVars, entVars>>
    /\ IF retry_count < max_retries
         THEN /\ rpc' = "backoff"
              /\ outcome' = outcome
         ELSE /\ rpc' = "done"
              /\ outcome' = Raised("Failed after retries", 0, max_retries,
                                   last_exception)
    /\ UNCHANGED <<max_retries, retry_count, last_exception, response,
                   pending, calls, trace>>

Backoff_Always ==
    /\ rpc = "backoff"
    /\ UNCHANGED <<flowVars, apiVars, dateVars, entVars>>
    /\ trace' = Append(trace, SleepEv(BackoffTime(retry_count)))
    /\ rpc' = "request"
    /\ UNCHANGED <<max_retries, retry_count, last_exception, response,
                   pending, calls, outcome>>

\* lines 95-98
Backoff ==
    /\ rpc = "backoff"
    /\ UNCHANGED <<flowVars, apiVars, dateVars, entVars>>
    /\ trace' = IF retry_count > 0
                  THEN Append(trace, SleepEv(BackoffTime(retry_count)))
                  ELSE trace
    /\ rpc' = "request"
    /\ UNCHANGED <<max_retries, retry_count, last_exception, response,
                   pending, calls, outcome>>

\* line 100, request_func answers
RequestReturns ==
    /\ rpc = "request"
    /\ UNCHANGED <<flowVars, apiVars, dateVars, entVars>>
    /\ \E s \in Statuses :
         /\ response' = [status |-> s, id |-> calls + 1]
         /\ trace' = Append(trace, RequestEv(s, ""))
    /\ calls' = calls + 1
    /\ rpc' = "status"
    /\ UNCHANGED <<max_retries, retry_count, last_exception, pending, outcome>>

\* line 100, request_func raises a RequestException
RequestRaises ==
    /\ rpc = "request"
    /\ UNCHANGED <<flowVars, apiVars, dateVars, entVars>>
    /\ \E e \in NetworkErrors :
         /\ pending' = Exc(e, 0)
         /\ trace' = Append(trace, RequestEv(0, e))
    /\ calls' = calls + 1
    /\ rpc' = "except"
    /\ UNCHANGED <<max_retries, retry_count, last_exception, response, outcome>>

OnForbidden_OffByOne ==
    /\ rpc = "status"
    /\ UNCHANGED <<flowVars, apiVars, dateVars, entVars>>
    /\ response.status = FORBIDDEN
    /\ retry_count' = retry_count + 1
    /\ IF retry_count + 1 <= max_retries
         THEN /\ trace' = Append(trace, SleepEv(RATE_LIMIT_COOLDOWN))
              /\ rpc' = "while"
              /\ outcome' = outcome
         ELSE /\ trace' = trace
              /\ rpc' = "done"
              /\ outcome' = Raised("Rate limit exceeded", 0, max_retries, None)
    /\ UNCHANGED <<max_retries, last_exception, response, pending, calls>>

\* lines 103-109
OnForbidden ==
    /\ rpc = "status"
    /\ UNCHANGED <<flowVars, apiVars, dateVars, entVars>>
    /\ response.status = FORBIDDEN
    /\ retry_count' = retry_count + 1
    /\ IF retry_count + 1 < max_retries
         THEN /\ trace' = Append(trace, SleepEv(RATE_LIMIT_COOLDOWN))
              /\ rpc' = "while"
              /\ outcome' = outcome
         ELSE /\ trace' = trace
              /\ rpc' = "done"
              /\ outcome' = Raised("Rate limit exceeded", 0, max_retries, None)
    /\ UNCHANGED <<max_retries, last_exception, response, pending, calls>>

OnNotFound_Retry ==
    /\ rpc = "status"
    /\ UNCHANGED <<flowVars, apiVars, dateVars, entVars>>
    /\ response.status # FORBIDDEN
    /\ response.status = NOT_FOUND
    /\ retry_count' = retry_count + 1
    /\ IF retry_count + 1 < max_retries
         THEN /\ trace' = Append(trace, SleepEv(RETRY_BACKOFF_FIRST))
              /\ rpc' = "while"
              /\ outcome' = outcome
         ELSE /\ trace' = trace
              /\ rpc' = "done"
              /\ outcome' = Raised("Resource not found (404)", 0, 0, None)
    /\ UNCHANGED <<max_retries, last_exception, response, pending, calls>>

\* lines 111-112
OnNotFound ==
    /\ rpc = "status"
    /\ UNCHANGED <<flowVars, apiVars, dateVars, entVars>>
    /\ response.status # FORBIDDEN
    /\ response.status = NOT_FOUND
    /\ rpc' = "done"
    /\ outcome' = Raised("Resource not found (404)", 0, 0, None)
    /\ UNCHANGED <<max_retries, retry_count, last_exception, response,
                   pending, calls, trace>>

\* The server-error branch continuing once more than the budget allows
OnServerError_OffByOne ==
    /\ rpc = "status"
    /\ UNCHANGED <<flowVars, apiVars, dateVars, entVars>>
    /\ response.status # FORBIDDEN
    /\ response.status # NOT_FOUND
    /\ response.status >= INTERNAL_SERVER_ERROR
    /\ retry_count' = retry_count + 1
    /\ IF retry_count + 1 <= max_retries
         THEN /\ trace' = Append(trace, SleepEv(RETRY_BACKOFF_FIRST))
              /\ rpc' = "while"
              /\ outcome' = outcome
         ELSE /\ trace' = trace
              /\ rpc' = "done"
              /\ outcome' = Raised("Server error", response.status,
                                   max_retries, None)
    /\ UNCHANGED <<max_retries, last_exception, response, pending, calls>>

\* lines 114-120
OnServerError ==
    /\ rpc = "status"
    /\ UNCHANGED <<flowVars, apiVars, dateVars, entVars>>
    /\ response.status # FORBIDDEN
    /\ response.status # NOT_FOUND
    /\ response.status >= INTERNAL_SERVER_ERROR
    /\ retry_count' = retry_count + 1
    /\ IF retry_count + 1 < max_retries
         THEN /\ trace' = Append(trace, SleepEv(RETRY_BACKOFF_FIRST))
              /\ rpc' = "while"
              /\ outcome' = outcome
         ELSE /\ trace' = trace
              /\ rpc' = "done"
              /\ outcome' = Raised("Server error", response.status,
                                   max_retries, None)
    /\ UNCHANGED <<max_retries, last_exception, response, pending, calls>>

\* lines 122-123: raise_for_status() inside the try block, then return
RaiseForStatusOrReturn ==
    /\ rpc = "status"
    /\ UNCHANGED <<flowVars, apiVars, dateVars, entVars>>
    /\ response.status # FORBIDDEN
    /\ response.status # NOT_FOUND
    /\ ~(response.status >= INTERNAL_SERVER_ERROR)
    /\ IF RaisesForStatus(response.status)
         THEN /\ pending' = Exc("HTTPError", response.status)
              /\ rpc' = "except"
              /\ outcome' = outcome
         ELSE /\ pending' = pending
              /\ rpc' = "done"
              /\ outcome' = Returned(response)
    /\ UNCHANGED <<max_retries, retry_count, last_exception, response,
                   calls, trace>>

ExceptRequestException_StaleCause ==
    /\ rpc = "except"
    /\ UNCHANGED <<flowVars, apiVars, dateVars, entVars>>
    /\ retry_count' = retry_count + 1
    /\ last_exception' = pending
    /\ pending' = None
    /\ IF retry_count + 1 < max_retries
         THEN /\ trace' = Append(trace, SleepEv(RETRY_BACKOFF_FIRST))
              /\ rpc' = "while"
              /\ outcome' = outcome
         ELSE /\ trace' = trace
              /\ rpc' = "done"
              /\ outcome' = Raised("Request failed", 0, max_retries,
                                   last_exception)
    /\ UNCHANGED <<max_retries, response, calls>>

\* The except clause without the count of line 126
ExceptRequestException_NoCount ==
    /\ rpc = "except"
    /\ UNCHANGED <<flowVars, apiVars, dateVars, entVars>>
    /\ retry_count' = retry_count
    /\ last_exception' = pending
    /\ pending' = None
    /\ IF retry_count + 1 < max_retries
         THEN /\ trace' = Append(trace, SleepEv(RETRY_BACKOFF_FIRST))
              /\ rpc' = "while"
              /\ outcome' = outcome
         ELSE /\ trace' = trace
              /\ rpc' = "done"
              /\ outcome' = Raised("Request failed", 0, max_retries, pending)
    /\ UNCHANGED <<max_retries, response, calls>>

\* lines 125-132: except requests.exceptions.RequestException
ExceptRequestException ==
    /\ rpc = "except"
    /\ UNCHANGED <<flowVars, apiVars, dateVars, entVars>>
    /\ retry_count' = retry_count + 1
    /\ last_exception' = pending
    /\ pending' = None
    /\ IF retry_count + 1 < max_retries
         THEN /\ trace' = Append(trace, SleepEv(RETRY_BACKOFF_FIRST))
              /\ rpc' = "while"
              /\ outcome' = outcome
         ELSE /\ trace' = trace
              /\ rpc' = "done"
              /\ outcome' = Raised("Request failed", 0, max_retries, pending)
    /\ UNCHANGED <<max_retries, response, calls>>

NextRetry ==
    \/ LoopTest
    \/ Backoff
    \/ RequestReturns
    \/ RequestRaises
    \/ OnForbidden
    \/ OnNotFound
    \/ OnServerError
    \/ RaiseForStatusOrReturn
    \/ ExceptRequestException

SpecRetry == InitRetry /\ [][NextRetry]_vars

\* The function runs on: a sleep ends, request_func answers or raises
\* (REQUEST_TIMEOUT bounds the call)
SpecRetryFair == SpecRetry /\ WF_vars(NextRetry)

-----------------------------------------------------------------------------
(* revisar_procesos: the per-case cycle (procesos.py lines 46-89) *)

Proceso == procesos_df[idx]

GetEv(i) == [case |-> i, op |-> "GET", cookie |-> ""]
PostEv(i, c) == [case |-> i, op |-> "POST", cookie |-> c]

InitFlow ==
    /\ EntIdle
    /\ DatesIdle
    /\ RetryIdle
    /\ ApiIdle
    /\ fpc = "start"
    /\ now = 0
    /\ procesos_df = <<>>
    /\ entidades_df = <<>>
    /\ idx = 0
    /\ soup = BlankPage
    /\ payload = NoPayload
    /\ data = BlankPage
    /\ validation = NoValidation
    /\ cookie = InitialCookie
    /\ session_id = ""
    /\ procesos_to_notify = <<>>
    /\ procesos_to_impulsar = <<>>
    /\ procesos_to_review = <<>>
    /\ summary_df = NoSummary
    /\ sheet = PriorSheet
    /\ sheet_writes = 0
    /\ emails = <<>>
    /\ flog = <<>>
    /\ flow_result = FlowRunning

ExceptHandler_AlsoNotify(e) ==
    /\ procesos_to_review' =
           Append(procesos_to_review, [key |-> Proceso.radicado, val |-> e])
    /\ procesos_to_notify' =
           Append(procesos_to_notify, [key |-> Proceso.radicado, val |-> data])
    /\ UNCHANGED procesos_to_impulsar
    /\ idx' = idx + 1
    /\ fpc' = "for"

ExceptHandler_Break(e) ==
    /\ procesos_to_review' =
           Append(procesos_to_review, [key |-> Proceso.radicado, val |-> e])
    /\ UNCHANGED <<procesos_to_notify, procesos_to_impulsar>>
    /\ idx' = idx
    /\ fpc' = "tally"

\* The except clause putting the entry at the head of the Review list
ExceptHandler_Prepend(e) ==
    /\ procesos_to_review' =
           <<[key |-> Proceso.radicado, val |-> e]>> \o procesos_to_review
    /\ UNCHANGED <<procesos_to_notify, procesos_to_impulsar>>
    /\ idx' = idx + 1
    /\ fpc' = "for"

\* lines 87-89: the except clause of the loop body
ExceptHandler(e) ==
    /\ procesos_to_review' =
           Append(procesos_to_review, [key |-> Proceso.radicado, val |-> e])
    /\ UNCHANGED <<procesos_to_notify, procesos_to_impulsar>>
    /\ idx' = idx + 1
    /\ fpc' = "for"

\* lines 46-50: the two sheets are read, the buckets start empty
GetSpreadsheetData ==
    /\ fpc = "start"
    /\ UNCHANGED <<retryVars, apiVars, dateVars, entVars>>
    /\ \E rows \in SeqsUpTo(Rows, MaxCases) : procesos_df' = rows
    /\ entidades_df' = EntidadesRows
    /\ idx' = 1
    /\ fpc' = "for"
    /\ UNCHANGED <<now, caseVars, cookieVars, bucketVars, reportVars, flog,
                   flow_result>>

\* lines 46-47 when the Sheets API fails: the error leaves the flow
GetSpreadsheetDataFails ==
    /\ fpc = "start"
    /\ UNCHANGED <<retryVars, apiVars, dateVars, entVars>>
    /\ fpc' = "raised"
    /\ flow_result' = FlowRaised("Failed to fetch spreadsheet data")
    /\ UNCHANGED <<inputVars, idx, caseVars, cookieVars, bucketVars, reportVars,
                   flog>>

\* line 56: the for statement
ForNext ==
    /\ fpc = "for"
    /\ UNCHANGED <<retryVars, apiVars, dateVars, entVars>>
    /\ fpc' = IF idx <= Len(procesos_df) THEN "fetch" ELSE "tally"
    /\ UNCHANGED <<inputVars, idx, caseVars, cookieVars, bucketVars, reportVars,
                   flog, flow_result>>

\* A fetch that starts from the Cookie the module was loaded with
FetchHtmlContent_OwnHeaders ==
    /\ fpc = "fetch"
    /\ UNCHANGED <<retryVars, apiVars, dateVars, entVars>>
    /\ flog' = Append(flog, GetEv(idx))
    /\ \E s \in SessionCookies :
         /\ session_id' = s
         /\ cookie' = IF s # "" THEN s ELSE InitialCookie
    /\ \E page \in {FormPage, BlankPage} : soup' = page
    /\ fpc' = "payload"
    /\ UNCHANGED <<inputVars, idx, payload, data, validation, bucketVars,
                   reportVars, flow_result>>

\* line 59, web_scraping.py lines 11-22: the page is fetched and a session
\* cookie of the answer replaces the Cookie of RAMA_HEADERS
FetchHtmlContent ==
    /\ fpc = "fetch"
    /\ UNCHANGED <<retryVars, apiVars, dateVars, entVars>>
    /\ flog' = Append(flog, GetEv(idx))
    /\ \E s \in SessionCookies :
         /\ session_id' = s
         /\ cookie' = IF s # "" THEN s ELSE cookie
    /\ \E page \in {FormPage, BlankPage} : soup' = page
    /\ fpc' = "payload"
    /\ UNCHANGED <<inputVars, idx, payload, data, validation, bucketVars,
                   reportVars, flow_result>>

\* line 59, web_scraping.py lines 23-24
FetchHtmlContentFails ==
    /\ fpc = "fetch"
    /\ UNCHANGED <<retryVars, apiVars, dateVars, entVars>>
    /\ flog' = Append(flog, GetEv(idx))
    /\ ExceptHandler(Err(<<"Failed to fetch HTML content from ", RAMA_URL,
                           ": ", "Timeout">>, Empty))
    /\ UNCHANGED <<inputVars, caseVars, cookieVars, reportVars, flow_result>>

\* web_scraping.py lines 58-68: select_one gives None for a selector the
\* page does not match, and None.get raises
ExtractDataFromPage(page, selectors) ==
    IF selectors \subseteq DOMAIN page
      THEN [raised |-> FALSE, result |-> [n \in selectors |-> page[n]]]
      ELSE [raised |-> TRUE, result |-> BlankPage]

\* proceso[RADICADO_COLUMN][:5]
Prefix5(radicado) == <<"[:5]", radicado>>

\* lines 60-63
ExtractPayload ==
    /\ fpc = "payload"
    /\ UNCHANGED <<retryVars, apiVars, dateVars, entVars>>
    /\ LET got == ExtractDataFromPage(soup, PAYLOAD_SELECTORS)
       IN  IF got.raised
             THEN /\ ExceptHandler(Err(<<"Failed to extract data from page: ",
                                         "'NoneType' object has no attribute 'get'">>,
                                       Empty))
                  /\ payload' = payload
             ELSE /\ payload' =
                        [session_id |-> got.result[SESSION_ID_FIELD],
                         ciudad |-> Prefix5(Proceso.radicado),
                         proceso |-> Proceso.radicado,
                         manager_script |->
                             [prefix |-> "managerScript|",
                              session_id |-> got.result[SESSION_ID_FIELD]],
                         entidad |-> ""]
                  /\ fpc' = "entidad"
                  /\ UNCHANGED <<idx, bucketVars>>
    /\ UNCHANGED <<inputVars, soup, data, validation, cookieVars, reportVars,
                   flog, flow_result>>

\* lines 65-66: iloc[0] of an empty selection raises IndexError
LookupEntidad ==
    /\ fpc = "entidad"
    /\ UNCHANGED <<retryVars, apiVars, dateVars, entVars>>
    /\ LET entidad_row ==
               SelectSeq(entidades_df,
                         LAMBDA row : row.entidad = Proceso.entidad)
       IN  IF entidad_row = <<>>
             THEN /\ ExceptHandler(Err(<<"single positional indexer is out-of-bounds">>,
                                       Empty))
                  /\ payload' = payload
             ELSE /\ payload' = [payload EXCEPT !.entidad = entidad_row[1].valor]
                  /\ fpc' = "submit1"
                  /\ UNCHANGED <<idx, bucketVars>>
    /\ UNCHANGED <<inputVars, soup, data, validation, cookieVars, reportVars,
                   flog, flow_result>>

\* line 69: the intermediate submission, its page is dropped
SubmitIntermediate ==
    /\ fpc = "submit1"
    /\ UNCHANGED <<retryVars, apiVars, dateVars, entVars>>
    /\ flog' = Append(flog, PostEv(idx, cookie))
    /\ fpc' = "submit2"
    /\ UNCHANGED <<inputVars, idx, caseVars, cookieVars, bucketVars, reportVars,
                   flow_result>>

\* line 69, web_scraping.py lines 43-44
SubmitIntermediateFails ==
    /\ fpc = "submit1"
    /\ UNCHANGED <<retryVars, apiVars, dateVars, entVars>>
    /\ flog' = Append(flog, PostEv(idx, cookie))
    /\ ExceptHandler(Err(<<"Failed to submit payload: ", "Timeout">>, Empty))
    /\ UNCHANGED <<inputVars, caseVars, cookieVars, reportVars, flow_result>>

\* line 72: the submission whose page holds the docket data
SubmitForm ==
    /\ fpc = "submit2"
    /\ UNCHANGED <<retryVars, apiVars, dateVars, entVars>>
    /\ flog' = Append(flog, PostEv(idx, cookie))
    /\ \E page \in {BlankPage} \cup {ResultPage(v) : v \in FechaValues} :
         soup' = page
    /\ fpc' = "extract"
    /\ UNCHANGED <<inputVars, idx, payload, data, validation, cookieVars,
                   bucketVars, reportVars, flow_result>>

\* line 72, web_scraping.py lines 43-44
SubmitFormFails ==
    /\ fpc = "submit2"
    /\ UNCHANGED <<retryVars, apiVars, dateVars, entVars>>
    /\ flog' = Append(flog, PostEv(idx, cookie))
    /\ ExceptHandler(Err(<<"Failed to submit payload: ", "Timeout">>, Empty))
    /\ UNCHANGED <<inputVars, caseVars, cookieVars, reportVars, flow_result>>

\* line 74
ExtractData ==
    /\ fpc = "extract"
    /\ UNCHANGED <<retryVars, apiVars, dateVars, entVars>>
    /\ LET got == ExtractDataFromPage(soup, DATA_SELECTORS)
       IN  IF got.raised
             THEN /\ ExceptHandler(Err(<<"Failed to extract data from page: ",
                                         "'NoneType' object has no attribute 'get_text'">>,
                                       Empty))
                  /\ data' = data
             ELSE /\ data' = got.result
                  /\ fpc' = "validate"
                  /\ UNCHANGED <<idx, bucketVars>>
    /\ UNCHANGED <<inputVars, soup, payload, validation, cookieVars, reportVars,
                   flog, flow_result>>

\* web_scraping.py lines 82-98, with the one rule of VALIDATION_RULES
validate_data(d, rules, t) ==
    LET missing == {f \in rules : f \notin DOMAIN d}
        checked == {f \in rules : f \in DOMAIN d}
        raising == {f \in checked : check_fecha(d[f], DAYS_RANGE, t).raised}
        failing == {f \in checked : ~check_fecha(d[f], DAYS_RANGE, t).val}
    IN  IF raising # {}
          THEN [raised |-> TRUE, is_valid |-> FALSE, messages |-> <<>>,
                value |-> d[CHOOSE f \in raising : TRUE]]
          ELSE [raised |-> FALSE,
                is_valid |-> missing = {} /\ failing = {},
                messages |->
                    (IF failing # {} THEN <<"Validation failed for field">>
                                     ELSE <<>>)
                    \o (IF missing # {} THEN <<"Missing required field">>
                                        ELSE <<>>),
                value |-> Empty]

\* line 76
ValidateData ==
    /\ fpc = "validate"
    /\ UNCHANGED <<retryVars, apiVars, dateVars, entVars>>
    /\ LET v == validate_data(data, VALIDATION_RULES, now)
       IN  IF v.raised
             THEN /\ ExceptHandler(Err(<<"Error during data validation: ",
                                         "Error parsing date: ">>, v.value))
                  /\ validation' = validation
             ELSE /\ validation' = [is_valid |-> v.is_valid,
                                    messages |-> v.messages]
                  /\ fpc' = "classify"
                  /\ UNCHANGED <<idx, bucketVars>>
    /\ UNCHANGED <<inputVars, soup, payload, data, cookieVars, reportVars,
                   flog, flow_result>>

\* lines 79-86
Classify ==
    /\ fpc = "classify"
    /\ UNCHANGED <<retryVars, apiVars, dateVars, entVars>>
    /\ LET has == FECHA_ACTUACION_FIELD \in DOMAIN data
           stale == IF has
                      THEN check_fecha_older_than_months(
                               data[FECHA_ACTUACION_FIELD], 6, now)
                      ELSE Ret(FALSE)
           entry == [key |-> Proceso.radicado, val |-> data]
       IN  IF stale.raised
             THEN ExceptHandler(Err(<<"Error parsing date: ">>,
                                    data[FECHA_ACTUACION_FIELD]))
             ELSE /\ IF stale.val
                       THEN /\ procesos_to_impulsar' =
                                   Append(procesos_to_impulsar, entry)
                            /\ UNCHANGED <<procesos_to_notify,
                                           procesos_to_review>>
                       ELSE IF validation.is_valid
                         THEN /\ procesos_to_notify' =
                                     Append(procesos_to_notify, entry)
                              /\ UNCHANGED <<procesos_to_impulsar,
                                             procesos_to_review>>
                         ELSE UNCHANGED bucketVars
                  /\ idx' = idx + 1
                  /\ fpc' = "for"
    /\ UNCHANGED <<inputVars, caseVars, cookieVars, reportVars, flog, flow_result>>

-----------------------------------------------------------------------------
(* revisar_procesos: the report phase (procesos.py lines 91-107) *)

\* constants.py lines 165-193: '' for an empty value, the value itself when
\* it does not parse, otherwise day-month-year
format_date_for_display(value) ==
    IF value.kind = "empty" THEN [shown |-> "", day |-> 0, raw |-> Empty]
    ELSE LET date == FromIsoFormat(Normalize(value))
         IN  IF date.ok
               THEN [shown |-> "dd-Mon-yyyy", day |-> date.day, raw |-> Empty]
               ELSE [shown |-> "raw", day |-> 0, raw |-> value]

\* data.get(field, '')
Get(d, field) == IF field \in DOMAIN d THEN d[field] ELSE Empty

\* notifications.py lines 272-325: the three blocks of the report
DataRows(bucket) ==
    [i \in 1..Len(bucket) |->
        [proceso |-> bucket[i].key,
         fecha |-> format_date_for_display(
                       Get(bucket[i].val, FECHA_ACTUACION_FIELD)),
         actuacion |-> Get(bucket[i].val, ACTUACION_FIELD)]]
ErrorRows(bucket) ==
    [i \in 1..Len(bucket) |->
        [proceso |-> bucket[i].key, error |-> bucket[i].val]]
generate_summary_report(notify, impulsar, review) ==
    [notify |-> DataRows(notify),
     impulsar |-> DataRows(impulsar),
     review |-> ErrorRows(review)]

\* notifications.py line 74: the parameters of format_notification_message,
\* none of which has a default
FormatNotificationMessageParams ==
    <<"procesos_to_notify", "procesos_to_impulsar", "procesos_to_review",
      "total_procesos">>

\* procesos.py line 101: the positional arguments of the call
FormatNotificationMessageArgs ==
    <<"procesos_to_notify", "procesos_to_impulsar", "procesos_to_review">>

\* Python binds positional arguments to parameters without defaults only
\* when there are as many of the ones as of the others (TypeError otherwise)
Binds(args, params) == Len(args) = Len(params)

Tally_AlwaysReport ==
    /\ fpc = "tally"
    /\ UNCHANGED <<retryVars, apiVars, dateVars, entVars>>
    /\ fpc' = "report"
    /\ UNCHANGED <<inputVars, idx, caseVars, cookieVars, bucketVars, reportVars,
                   flog, flow_result>>

\* line 91
Tally ==
    /\ fpc = "tally"
    /\ UNCHANGED <<retryVars, apiVars, dateVars, entVars>>
    /\ fpc' = IF /\ procesos_to_notify = <<>>
                 /\ procesos_to_impulsar = <<>>
                 /\ procesos_to_review = <<>>
                THEN "return"
                ELSE "report"
    /\ UNCHANGED <<inputVars, idx, caseVars, cookieVars, bucketVars, reportVars,
                   flog, flow_result>>

\* line 95
GenerateSummaryReport ==
    /\ fpc = "report"
    /\ UNCHANGED <<retryVars, apiVars, dateVars, entVars>>
    /\ summary_df' = generate_summary_report(procesos_to_notify,
                                             procesos_to_impulsar,
                                             procesos_to_review)
    /\ fpc' = "update"
    /\ UNCHANGED <<inputVars, idx, caseVars, cookieVars, bucketVars, sheet,
                   sheet_writes, emails, flog, flow_result>>

\* UpdateClear leaving the sheet as it is
UpdateClear_NoClear ==
    /\ fpc = "update"
    /\ UNCHANGED <<retryVars, apiVars, dateVars, entVars>>
    /\ sheet_writes' = sheet_writes + 1
    /\ sheet' = sheet
    /\ fpc' = "write"
    /\ UNCHANGED <<inputVars, idx, caseVars, cookieVars, bucketVars, summary_df,
                   emails, flog, flow_result>>

\* line 96, google_drive.py lines 58-70: the sheet is cleared first
UpdateClear ==
    /\ fpc = "update"
    /\ UNCHANGED <<retryVars, apiVars, dateVars, entVars>>
    /\ sheet_writes' = sheet_writes + 1
    /\ sheet' = ClearedSheet
    /\ fpc' = "write"
    /\ UNCHANGED <<inputVars, idx, caseVars, cookieVars, bucketVars, summary_df,
                   emails, flog, flow_result>>

\* google_drive.py lines 60-70 failing, lines 84-85
UpdateClearFails ==
    /\ fpc = "update"
    /\ UNCHANGED <<retryVars, apiVars, dateVars, entVars>>
    /\ sheet_writes' = sheet_writes + 1
    /\ fpc' = "raised"
    /\ flow_result' = FlowRaised("Failed to update spreadsheet data")
    /\ UNCHANGED <<inputVars, idx, caseVars, cookieVars, bucketVars, summary_df,
                   sheet, emails, flog>>

\* google_drive.py lines 73-83: the new values are written
UpdateWrite ==
    /\ fpc = "write"
    /\ UNCHANGED <<retryVars, apiVars, dateVars, entVars>>
    /\ sheet' = WrittenSheet(summary_df)
    /\ fpc' = "notify"
    /\ UNCHANGED <<inputVars, idx, caseVars, cookieVars, bucketVars, summary_df,
                   sheet_writes, emails, flog, flow_result>>

\* A failed write handled like a failed case: noted for review, run goes on
UpdateWriteFails_Caught ==
    /\ fpc = "write"
    /\ UNCHANGED <<retryVars, apiVars, dateVars, entVars>>
    /\ procesos_to_review' =
           Append(procesos_to_review,
                  [key |-> "", val |-> Err(<<"Failed to update spreadsheet data">>, Empty)])
    /\ fpc' = "notify"
    /\ UNCHANGED <<inputVars, idx, caseVars, cookieVars, procesos_to_notify,
                   procesos_to_impulsar, reportVars, flog, flow_result>>

\* A failed write that puts the prior content back
UpdateWriteFails_RollsBack ==
    /\ fpc = "write"
    /\ UNCHANGED <<retryVars, apiVars, dateVars, entVars>>
    /\ sheet' = PriorSheet
    /\ fpc' = "raised"
    /\ flow_result' = FlowRaised("Failed to update spreadsheet data")
    /\ UNCHANGED <<inputVars, idx, caseVars, cookieVars, bucketVars, summary_df,
                   sheet_writes, emails, flog>>

\* google_drive.py lines 76-81 failing, lines 84-85
UpdateWriteFails ==
    /\ fpc = "write"
    /\ UNCHANGED <<retryVars, apiVars, dateVars, entVars>>
    /\ fpc' = "raised"
    /\ flow_result' = FlowRaised("Failed to update spreadsheet data")
    /\ UNCHANGED <<inputVars, idx, caseVars, cookieVars, bucketVars, reportVars,
                   flog>>

\* lines 99-103: the arguments of send_email_notification are evaluated
\* first, format_notification_message among them; the email is sent only
\* when that call binds
SendEmailNotification ==
    /\ fpc = "notify"
    /\ UNCHANGED <<retryVars, apiVars, dateVars, entVars>>
    /\ IF Binds(FormatNotificationMessageArgs, FormatNotificationMessageParams)
         THEN /\ emails' = Append(emails, summary_df)
              /\ \/ /\ fpc' = "return"
                    /\ flow_result' = flow_result
                 \/ /\ fpc' = "raised"
                    /\ flow_result' =
                           FlowRaised("Failed to send email notification")
         ELSE /\ emails' = emails
              /\ fpc' = "raised"
              /\ flow_result' =
                     FlowRaised("TypeError: missing a required argument: 'total_procesos'")
    /\ UNCHANGED <<inputVars, idx, caseVars, cookieVars, bucketVars, summary_df,
                   sheet, sheet_writes, flog>>

\* lines 106-107
ReturnCompleted ==
    /\ fpc = "return"
    /\ UNCHANGED <<retryVars, apiVars, dateVars, entVars>>
    /\ fpc' = "done"
    /\ flow_result' = FlowReturned("Completed")
    /\ UNCHANGED <<inputVars, idx, caseVars, cookieVars, bucketVars, reportVars,
                   flog>>

NextFlow ==
    \/ GetSpreadsheetData
    \/ GetSpreadsheetDataFails
    \/ ForNext
    \/ FetchHtmlContent
    \/ FetchHtmlContentFails
    \/ ExtractPayload
    \/ LookupEntidad
    \/ SubmitIntermediate
    \/ SubmitIntermediateFails
    \/ SubmitForm
    \/ SubmitFormFails
    \/ ExtractData
    \/ ValidateData
    \/ Classify
    \/ Tally
    \/ GenerateSummaryReport
    \/ UpdateClear
    \/ UpdateClearFails
    \/ UpdateWrite
    \/ UpdateWriteFails
    \/ SendEmailNotification
    \/ ReturnCompleted

SpecFlow == InitFlow /\ [][NextFlow]_vars

-----------------------------------------------------------------------------
(* get_latest_actuacion *)

\* api_client.py lines 21-22
MIN_DELAY_SECONDS == 3
MAX_DELAY_SECONDS == 7

\* The messages make_api_request_with_retry raises
ExecutorErrors ==
    {"Rate limit exceeded", "Resource not found (404)", "Server error",
     "Request failed"}

\* Bodies of the lookup response: without the 'procesos' key, or with a list
LookupResponses ==
    {NoLookupData}
        \cup { [has_procesos |-> TRUE, procesos |-> l] : l \in CandidateLists }

\* An item of the 'actuaciones' list; the fields anotacion, fechaInicial and
\* fechaFinal are present when optional is TRUE
Actuacion(id, optional) == [id |-> id, optional |-> optional]
Actuaciones == {Actuacion("a1", TRUE), Actuacion("a2", FALSE)}
ActuacionesLists == SeqsUpTo(Actuaciones, MaxActuaciones)

\* latest[field]: the value the item a carries in that field
Item(a, field) == <<a.id, field>>
\* latest.get(field, default)
ItemGet(a, field, default) == IF a.optional THEN Item(a, field) ELSE <<default>>

LookupEv == [ev |-> "lookup", arg |-> 0]
DelayEv(d) == [ev |-> "delay", arg |-> d]
FetchEv(id) == [ev |-> "fetch", arg |-> id]

\* The except clauses of get_proceso_by_radicacion (219-221),
\* get_proceso_actuaciones (260-262) and get_latest_actuacion (324-326)
WrapLookup(text) == <<"Failed to fetch proceso by radicacion">> \o text
WrapActuaciones(text) == <<"Failed to fetch actuaciones for proceso">> \o text
WrapLatest(text) == <<"Failed to get latest actuacion for">> \o text

InitApi ==
    /\ EntIdle
    /\ DatesIdle
    /\ RetryIdle
    /\ FlowIdle
    /\ apc = "lookup"
    /\ lookup_data = NoLookupData
    /\ lookup = ApiNone
    /\ actuaciones = <<>>
    /\ alog = <<>>
    /\ api_result = ApiNone

\* get_latest_actuacion line 294, get_proceso_by_radicacion lines 194-205:
\* the executor returns a response
LookupProceso ==
    /\ apc = "lookup"
    /\ \E d \in LookupResponses : lookup_data' = d
    /\ alog' = Append(alog, LookupEv)
    /\ apc' = "procesos"
    /\ UNCHANGED <<lookup, actuaciones, api_result>>
    /\ UNCHANGED <<retryVars, flowVars, dateVars, entVars>>

\* The executor raises: lines 219-221, then lines 324-326
LookupProcesoFails ==
    /\ apc = "lookup"
    /\ alog' = Append(alog, LookupEv)
    /\ \E e \in ExecutorErrors :
          /\ lookup' = ApiRaise(WrapLookup(<<e>>))
          /\ api_result' = ApiRaise(WrapLatest(WrapLookup(<<e>>)))
    /\ apc' = "done"
    /\ UNCHANGED <<lookup_data, actuaciones>>
    /\ UNCHANGED <<retryVars, flowVars, dateVars, entVars>>

\* SelectProceso without the check of line 210: the empty list reaches
\* procesos[0] of select_most_recent_proceso
SelectProceso_NoEmptyCheck ==
    /\ apc = "procesos"
    /\ LET empty == ~lookup_data.has_procesos \/ Len(lookup_data.procesos) = 0
           selected == select_most_recent_proceso(lookup_data.procesos)
           raised == IF empty THEN <<"IndexError">> ELSE selected.text
       IN  IF empty \/ selected.kind = "raise"
             THEN /\ lookup' = ApiRaise(WrapLookup(raised))
                  /\ api_result' = ApiRaise(WrapLatest(WrapLookup(raised)))
                  /\ apc' = "done"
             ELSE /\ lookup' = selected
                  /\ api_result' = api_result
                  /\ apc' = "delay"
    /\ UNCHANGED <<lookup_data, actuaciones, alog>>
    /\ UNCHANGED <<retryVars, flowVars, dateVars, entVars>>

\* get_proceso_by_radicacion lines 207-217 and get_latest_actuacion line 295
SelectProceso ==
    /\ apc = "procesos"
    /\ LET selected == select_most_recent_proceso(lookup_data.procesos)
           raised ==
               IF ~lookup_data.has_procesos \/ Len(lookup_data.procesos) = 0
                 THEN <<"No process found for radicacion">>
                 ELSE selected.text
       IN  IF ~lookup_data.has_procesos \/ Len(lookup_data.procesos) = 0
              \/ selected.kind = "raise"
             THEN /\ lookup' = ApiRaise(WrapLookup(raised))
                  /\ api_result' = ApiRaise(WrapLatest(WrapLookup(raised)))
                  /\ apc' = "done"
             ELSE /\ lookup' = selected
                  /\ api_result' = api_result
                  /\ apc' = "delay"
    /\ UNCHANGED <<lookup_data, actuaciones, alog>>
    /\ UNCHANGED <<retryVars, flowVars, dateVars, entVars>>

\* random_delay, lines 64-67, called at line 298
RandomDelay ==
    /\ apc = "delay"
    /\ \E delay \in MIN_DELAY_SECONDS..MAX_DELAY_SECONDS :
          alog' = Append(alog, DelayEv(delay))
    /\ apc' = "fetch"
    /\ UNCHANGED <<lookup_data, lookup, actuaciones, api_result>>
    /\ UNCHANGED <<retryVars, flowVars, dateVars, entVars>>

\* get_proceso_actuaciones lines 243-258, called at line 301; a response
\* without the 'actuaciones' key gives the empty list
FetchActuaciones ==
    /\ apc = "fetch"
    /\ \E l \in ActuacionesLists : actuaciones' = l
    /\ alog' = Append(alog, FetchEv(lookup.value[1].idProceso))
    /\ apc' = "latest"
    /\ UNCHANGED <<lookup_data, lookup, api_result>>
    /\ UNCHANGED <<retryVars, flowVars, dateVars, entVars>>

\* The executor raises: lines 260-262, then lines 324-326
FetchActuacionesFails ==
    /\ apc = "fetch"
    /\ alog' = Append(alog, FetchEv(lookup.value[1].idProceso))
    /\ \E e \in ExecutorErrors :
          api_result' = ApiRaise(WrapLatest(WrapActuaciones(<<e>>)))
    /\ apc' = "done"
    /\ UNCHANGED <<lookup_data, lookup, actuaciones>>
    /\ UNCHANGED <<retryVars, flowVars, dateVars, entVars>>

\* The record of lines 310-319
LatestRecord(latest, id_proceso) ==
    [fecha_actuacion |-> Item(latest, "fechaActuacion"),
     actuacion       |-> Item(latest, "actuacion"),
     anotacion       |-> ItemGet(latest, "anotacion", ""),
     fecha_inicial   |-> ItemGet(latest, "fechaInicial", "None"),
     fecha_final     |-> ItemGet(latest, "fechaFinal", "None"),
     fecha_registro  |-> Item(latest, "fechaRegistro"),
     id_proceso      |-> id_proceso,
     llave_proceso   |-> Item(latest, "llaveProceso")]

\* BuildLatest taking the last item of the list
BuildLatest_LastItem ==
    /\ apc = "latest"
    /\ IF actuaciones = <<>>
         THEN api_result' =
                  ApiRaise(WrapLatest(<<"No actuaciones found for proceso">>))
         ELSE api_result' =
                  ApiReturn(LatestRecord(actuaciones[Len(actuaciones)],
                                         lookup.value[1].idProceso))
    /\ apc' = "done"
    /\ UNCHANGED <<lookup_data, lookup, actuaciones, alog>>
    /\ UNCHANGED <<retryVars, flowVars, dateVars, entVars>>

\* get_latest_actuacion lines 303-322
BuildLatest ==
    /\ apc = "latest"
    /\ IF actuaciones = <<>>
         THEN api_result' =
                  ApiRaise(WrapLatest(<<"No actuaciones found for proceso">>))
         ELSE api_result' =
                  ApiReturn(LatestRecord(actuaciones[1],
                                         lookup.value[1].idProceso))
    /\ apc' = "done"
    /\ UNCHANGED <<lookup_data, lookup, actuaciones, alog>>
    /\ UNCHANGED <<retryVars, flowVars, dateVars, entVars>>

NextApi ==
    \/ LookupProceso
    \/ LookupProcesoFails
    \/ SelectProceso
    \/ RandomDelay
    \/ FetchActuaciones
    \/ FetchActuacionesFails
    \/ BuildLatest

SpecApi == InitApi /\ [][NextApi]_vars

-----------------------------------------------------------------------------
(* check_fecha and check_fecha_older_than_months on their own *)

\* A timestamp with fractional seconds and no zone
IsoFrac(day) == Value("iso", day, TRUE, "")

\* Days of the timestamps and of datetime.now(), counted from 2025-02-12
DateDays == {-181, -180, -179, -30, -8, -7, -6, -1, 0, 1}
NowDays == {0, 1, 17}

DateValues ==
    {Empty, Malformed}
        \cup { Iso(d) : d \in DateDays } \cup { IsoZ(d) : d \in DateDays }
        \cup { IsoFrac(d) : d \in DateDays } \cup { IsoFracZ(d) : d \in DateDays }

InitDates ==
    /\ EntIdle
    /\ RetryIdle
    /\ FlowIdle
    /\ ApiIdle
    /\ date_value \in DateValues
    /\ date_now \in NowDays
    /\ date_days_range \in {DAYS_RANGE, 30}
    /\ date_months \in {1, 6}
    /\ recent = <<>>
    /\ older = <<>>

\* constants.py lines 127-143
CheckFecha ==
    /\ date_days_range # 0
    /\ recent = <<>>
    /\ recent' = <<check_fecha(date_value, date_days_range, date_now)>>
    /\ UNCHANGED <<date_value, date_now, date_days_range, date_months, older>>
    /\ UNCHANGED <<retryVars, flowVars, apiVars, entVars>>

\* constants.py lines 146-162
CheckFechaOlderThanMonths ==
    /\ date_months # 0
    /\ older = <<>>
    /\ older' = <<check_fecha_older_than_months(date_value, date_months, date_now)>>
    /\ UNCHANGED <<date_value, date_now, date_days_range, date_months, recent>>
    /\ UNCHANGED <<retryVars, flowVars, apiVars, entVars>>

NextDates ==
    \/ CheckFecha
    \/ CheckFechaOlderThanMonths

SpecDates == InitDates /\ [][NextDates]_vars

-----------------------------------------------------------------------------
(* extraer_entidades (entidades.py lines 16-65) *)

\* Most city options of the page
MaxCities == 2

\* An option of a select element: its text and its value attribute
Option(text, value) == [text |-> text, value |-> value]

\* City options: two placeholders ("0" and "") and two cities
CityOptions ==
    {Option("Seleccione", "0"), Option("--", ""),
     Option("Medellin", "05001"), Option("Bogota", "11001")}
\* The entity options an answer may list: none, or two entities in either
\* order among placeholders
EntidadAnswers ==
    { <<>>,
      <<Option("Seleccione", "0"), Option("Juzgado Civil", "e1"),
        Option("Juzgado Penal", "e2")>>,
      <<Option("Juzgado Penal", "e2"), Option("--", ""),
        Option("Juzgado Civil", "e1")>> }

\* lines 38 and 50: the values that stand for no choice
Placeholder(value) == value = "0" \/ value = ""

\* lines 49-50: the options of an answer that are kept
KeptEntidades(entidades) ==
    SelectSeq(entidades, LAMBDA entidad : ~Placeholder(entidad.value))

\* A POST of line 46: the city posted, the Cookie of RAMA_HEADERS, and the
\* entity options of the answer (failed: the call raised)
EntPostEv(value, c, failed, entidades) ==
    [ciudad |-> value, cookie |-> c, failed |-> failed, entidades |-> entidades]

\* The flow variables extraer_entidades leaves alone (it shares RAMA_HEADERS)
flowRest == <<fpc, inputVars, idx, caseVars, bucketVars, reportVars, flog,
              flow_result>>

InitEntidades ==
    /\ RetryIdle
    /\ FlowIdle
    /\ ApiIdle
    /\ DatesIdle
    /\ epc = "fetch"
    /\ ciudades = <<>>
    /\ ciudad_idx = 0
    /\ all_entidades_list = <<>>
    /\ entidades_sheet = EntPriorSheet
    /\ elog = <<>>
    /\ entidades_result = EntRunning

\* lines 23-35: the page is fetched (web_scraping.py lines 11-22), its city
\* options are listed and the payload is extracted; a page without the form
\* fields makes extract_data_from_page raise
EntFetchHtmlContent ==
    /\ epc = "fetch"
    /\ \E s \in SessionCookies :
         /\ session_id' = s
         /\ cookie' = IF s # "" THEN s ELSE cookie
    /\ \/ /\ \E cs \in SeqsUpTo(CityOptions, MaxCities) : ciudades' = cs
          /\ ciudad_idx' = 1
          /\ epc' = "for"
          /\ entidades_result' = entidades_result
       \/ /\ ciudades' = <<>>
          /\ ciudad_idx' = ciudad_idx
          /\ epc' = "raised"
          /\ entidades_result' = EntRaised("Failed to extract data from page")
    /\ UNCHANGED <<all_entidades_list, entidades_sheet, elog>>
    /\ UNCHANGED <<retryVars, flowRest, apiVars, dateVars>>

\* line 23, web_scraping.py lines 23-24
EntFetchHtmlContentFails ==
    /\ epc = "fetch"
    /\ epc' = "raised"
    /\ entidades_result' = EntRaised("Failed to fetch HTML content")
    /\ UNCHANGED <<ciudades, ciudad_idx, all_entidades_list, entidades_sheet,
                   elog>>
    /\ UNCHANGED <<retryVars, flowVars, apiVars, dateVars>>

\* lines 37-43: the loop moves on, skipping the placeholder options
EntForNext ==
    /\ epc = "for"
    /\ IF ciudad_idx > Len(ciudades)
         THEN /\ epc' = "update"
              /\ ciudad_idx' = ciudad_idx
         ELSE IF Placeholder(ciudades[ciudad_idx].value)
           THEN /\ epc' = "for"
                /\ ciudad_idx' = ciudad_idx + 1
           ELSE /\ epc' = "submit"
                /\ ciudad_idx' = ciudad_idx
    /\ UNCHANGED <<ciudades, all_entidades_list, entidades_sheet, elog,
                   entidades_result>>
    /\ UNCHANGED <<retryVars, flowVars, apiVars, dateVars>>

\* lines 46-53: the city is posted and the entities of the answer are kept
EntSubmitPayload ==
    /\ epc = "submit"
    /\ \E entidades \in EntidadAnswers :
         /\ elog' = Append(elog, EntPostEv(ciudades[ciudad_idx].value, cookie,
                                           FALSE, entidades))
         /\ all_entidades_list' =
                all_entidades_list \o KeptEntidades(entidades)
    /\ ciudad_idx' = ciudad_idx + 1
    /\ epc' = "for"
    /\ UNCHANGED <<ciudades, entidades_sheet, entidades_result>>
    /\ UNCHANGED <<retryVars, flowVars, apiVars, dateVars>>

\* The except clause only logging the error: the loop goes on
EntSubmitPayloadFails_Continue ==
    /\ epc = "submit"
    /\ elog' = Append(elog, EntPostEv(ciudades[ciudad_idx].value, cookie,
                                      TRUE, <<>>))
    /\ epc' = "for"
    /\ ciudad_idx' = ciudad_idx + 1
    /\ UNCHANGED <<ciudades, all_entidades_list, entidades_sheet,
                   entidades_result>>
    /\ UNCHANGED <<retryVars, flowVars, apiVars, dateVars>>

\* lines 54-56: the error of the city is logged and raised again
EntSubmitPayloadFails ==
    /\ epc = "submit"
    /\ elog' = Append(elog, EntPostEv(ciudades[ciudad_idx].value, cookie,
                                      TRUE, <<>>))
    /\ epc' = "raised"
    /\ entidades_result' = EntRaised("Failed to submit payload")
    /\ UNCHANGED <<ciudades, ciudad_idx, all_entidades_list, entidades_sheet>>
    /\ UNCHANGED <<retryVars, flowVars, apiVars, dateVars>>

\* line 62, google_drive.py lines 58-70: the sheet is cleared first
EntUpdateClear ==
    /\ epc = "update"
    /\ entidades_sheet' = EntClearedSheet
    /\ epc' = "write"
    /\ UNCHANGED <<ciudades, ciudad_idx, all_entidades_list, elog,
                   entidades_result>>
    /\ UNCHANGED <<retryVars, flowVars, apiVars, dateVars>>

\* google_drive.py lines 60-70 failing, lines 84-85
EntUpdateClearFails ==
    /\ epc = "update"
    /\ epc' = "raised"
    /\ entidades_result' = EntRaised("Failed to update spreadsheet data")
    /\ UNCHANGED <<ciudades, ciudad_idx, all_entidades_list, entidades_sheet,
                   elog>>
    /\ UNCHANGED <<retryVars, flowVars, apiVars, dateVars>>

\* google_drive.py lines 73-83 and entidades.py lines 64-65
EntUpdateWrite ==
    /\ epc = "write"
    /\ entidades_sheet' = EntWrittenSheet(all_entidades_list)
    /\ epc' = "done"
    /\ entidades_result' = EntReturned(all_entidades_list)
    /\ UNCHANGED <<ciudades, ciudad_idx, all_entidades_list, elog>>
    /\ UNCHANGED <<retryVars, flowVars, apiVars, dateVars>>

\* google_drive.py lines 76-81 failing, lines 84-85
EntUpdateWriteFails ==
    /\ epc = "write"
    /\ epc' = "raised"
    /\ entidades_result' = EntRaised("Failed to update spreadsheet data")
    /\ UNCHANGED <<ciudades, ciudad_idx, all_entidades_list, entidades_sheet,
                   elog>>
    /\ UNCHANGED <<retryVars, flowVars, apiVars, dateVars>>

NextEntidades ==
    \/ EntFetchHtmlContent
    \/ EntFetchHtmlContentFails
    \/ EntForNext
    \/ EntSubmitPayload
    \/ EntSubmitPayloadFails
    \/ EntUpdateClear
    \/ EntUpdateClearFails
    \/ EntUpdateWrite
    \/ EntUpdateWriteFails

SpecEntidades == InitEntidades /\ [][NextEntidades]_vars

\* Either entry point
Init == InitRetry \/ InitFlow \/ InitApi \/ InitDates \/ InitEntidades
Next == NextRetry \/ NextFlow \/ NextApi \/ NextDates \/ NextEntidades
Spec == Init /\ [][Next]_vars

-----------------------------------------------------------------------------
(* Properties of make_api_request_with_retry *)

IsRequest(i) == trace[i].ev = "request"

\* position in the log of the k-th call of request_func
NthReq(k) ==
    CHOOSE i \in DOMAIN trace :
        /\ IsRequest(i)
        /\ Cardinality({j \in 1..i : IsRequest(j)}) = k

RECURSIVE SleepSum(_, _)
\* total time slept at the log positions i..j
SleepSum(i, j) ==
    IF i > j THEN 0
    ELSE (IF trace[i].ev = "sleep" THEN trace[i].arg ELSE 0)
         + SleepSum(i + 1, j)

\* every call so far was answered by a status of S (0: a network error)
AllReq(S) == \A i \in DOMAIN trace : IsRequest(i) => trace[i].arg \in S

LastEv == trace[Len(trace)]

\* a non-success status other than 403, 404 and >= 500
OtherNonSuccess(s) ==
    /\ ~(s >= 200 /\ s < 300)
    /\ s # 403
    /\ s # 404
    /\ s < 500

\* C1 (as claimed): after a response with a non-success status other than
\* 403, 404 and >= 500, request_func is never called again.
C1_NoRetryAfterOtherStatus ==
    \A i \in DOMAIN trace :
        (IsRequest(i) /\ trace[i].err = "" /\ OtherNonSuccess(trace[i].arg))
            => \A j \in DOMAIN trace : IsRequest(j) => j <= i

\* C2 (as claimed): the total time slept between a failed attempt and the
\* next call of request_func is 30 before the first retry and 60 before
\* every later retry.
C2_TotalSleepIsTier ==
    \A k \in 2..calls :
        SleepSum(NthReq(k - 1) + 1, NthReq(k) - 1)
            = (IF k = 2 THEN 30 ELSE 60)

\* C2 (amended): between a failed attempt and the next call the executor
\* sleeps exactly twice: the wait attached to the failure (60 after a 403,
\* 30 after any other retried failure), then the tier backoff (30 before
\* the first retry, 60 before every later one).
C2_TwoSleepsPerRetry ==
    \A k \in 2..calls :
        SubSeq(trace, NthReq(k - 1) + 1, NthReq(k) - 1)
            = << SleepEv(IF trace[NthReq(k - 1)].arg = 403 THEN 60 ELSE 30),
                 SleepEv(IF k = 2 THEN 30 ELSE 60) >>

C2_Witness ==
    /\ calls = 3
    /\ trace[NthReq(1)].arg = 403
    /\ trace[NthReq(2)].arg = 500
    /\ SleepSum(NthReq(1) + 1, NthReq(2) - 1) = 90
    /\ SleepSum(NthReq(2) + 1, NthReq(3) - 1) = 90

\* C3: when every response is 403 and the budget is N >= 1, request_func is
\* called exactly N times, never N+1, and the run ends with the rate-limit
\* error.
C3_AllForbidden ==
    (max_retries >= 1 /\ AllReq({403}))
        => /\ calls <= max_retries
           /\ rpc = "done"
                => /\ calls = max_retries
                   /\ outcome.kind = "raise"
                   /\ outcome.text = "Rate limit exceeded"
                   /\ outcome.n = max_retries

C3_Witness ==
    /\ rpc = "done"
    /\ max_retries = MAX_RETRIES
    /\ calls = 3
    /\ AllReq({403})
    /\ outcome.text = "Rate limit exceeded"

\* C4: a 404 response is the last event of the run: no sleep and no call
\* follows it, and the run ends with the not-found error; a 404 on the first
\* attempt means exactly one call.
C4_NotFoundNeverRetried ==
    \A i \in DOMAIN trace :
        (IsRequest(i) /\ trace[i].arg = 404)
            => /\ i = Len(trace)
               /\ rpc \in {"status", "done"}
               /\ rpc = "done"
                    => /\ outcome.kind = "raise"
                       /\ outcome.text = "Resource not found (404)"
               /\ i = 1 => calls = 1

C4_Witness ==
    /\ rpc = "done"
    /\ calls = 2
    /\ LastEv = RequestEv(404, "")
    /\ outcome.text = "Resource not found (404)"

\* C5: when every attempt ended in a status >= 500 or a network error, the
\* run ends after exactly max_retries calls with ServerError (last failure a
\* status >= 500) or RequestFailed carrying the last network error.
C5_RetryableExhaustsBudget ==
    (rpc = "done" /\ calls >= 1 /\ AllReq({0, 500, 503}))
        => /\ calls = max_retries
           /\ outcome.kind = "raise"
           /\ LastEv.ev = "request"
           /\ LastEv.arg >= 500
                => /\ outcome.text = "Server error"
                   /\ outcome.code = LastEv.arg
                   /\ outcome.n = max_retries
           /\ LastEv.arg = 0
                => /\ outcome.text = "Request failed"
                   /\ outcome.n = max_retries
                   /\ outcome.cause = Exc(LastEv.err, 0)

C5_Witness ==
    /\ rpc = "done"
    /\ calls = 3
    /\ trace[NthReq(1)].arg = 503
    /\ trace[NthReq(2)].err = "ConnectionError"
    /\ LastEv.err = "Timeout"
    /\ outcome.text = "Request failed"
    /\ outcome.cause = Exc("Timeout", 0)

\* C6: a 2xx response is the last event of the run and is the value
\* returned; no sleep precedes the first call, so a success on the first
\* attempt involves no sleep at all.
C6_SuccessReturnsAtOnce ==
    /\ trace # <<>> => IsRequest(1)
    /\ \A i \in DOMAIN trace :
        (IsRequest(i) /\ trace[i].arg >= 200 /\ trace[i].arg < 300)
            => /\ i = Len(trace)
               /\ rpc \in {"status", "done"}
               /\ rpc = "done"
                    => outcome = Returned([status |-> trace[i].arg,
                                           id |-> calls])

C6_Witness ==
    /\ rpc = "done"
    /\ calls = 2
    /\ outcome.kind = "return"
    /\ outcome.response = [status |-> 204, id |-> 2]

-----------------------------------------------------------------------------
(* Properties of revisar_procesos *)

Keys(bucket) == {bucket[i].key : i \in DOMAIN bucket}

\* number of entries of a bucket for the case number r
Entries(bucket, r) == Cardinality({i \in DOMAIN bucket : bucket[i].key = r})

\* rows of the input whose cycle is over
Processed == {i \in DOMAIN procesos_df : i < idx}

Radicados == {procesos_df[i].radicado : i \in DOMAIN procesos_df}

CaseSteps == {"fetch", "payload", "entidad", "submit1", "submit2",
              "extract", "validate", "classify"}
AfterLoop == {"tally", "report", "update", "write", "notify", "return",
              "done", "raised"}

BucketsEmpty ==
    /\ procesos_to_notify = <<>>
    /\ procesos_to_impulsar = <<>>
    /\ procesos_to_review = <<>>

\* C7 (as claimed): no case number of the input is in two buckets.
C7_BucketsDisjoint ==
    /\ Keys(procesos_to_notify) \cap Keys(procesos_to_impulsar) = {}
    /\ Keys(procesos_to_notify) \cap Keys(procesos_to_review) = {}
    /\ Keys(procesos_to_impulsar) \cap Keys(procesos_to_review) = {}

\* C7 (amended): every processed row adds at most one entry to the three
\* buckets together, so a case number has at most as many entries as rows,
\* and a case number listed once is in at most one bucket.
C7_OneEntryPerRow ==
    \A r \in Radicados :
        LET rows == Cardinality({i \in Processed : procesos_df[i].radicado = r})
            n == Entries(procesos_to_notify, r)
                 + Entries(procesos_to_impulsar, r)
                 + Entries(procesos_to_review, r)
        IN  /\ n <= rows
            /\ rows = 1 =>
                 Cardinality({b \in {"n", "i", "r"} :
                     r \in Keys(CASE b = "n" -> procesos_to_notify
                                  [] b = "i" -> procesos_to_impulsar
                                  [] b = "r" -> procesos_to_review)}) <= 1

C7_Witness ==
    /\ fpc = "tally"
    /\ Len(procesos_df) = 2
    /\ procesos_df[1].radicado # procesos_df[2].radicado
    /\ Len(procesos_to_notify) = 1
    /\ Len(procesos_to_impulsar) = 1
    /\ procesos_to_review = <<>>

\* the first words of the error each step of the cycle raises
StepErrorText(step) ==
    CASE step = "fetch" -> "Failed to fetch HTML content from "
      [] step = "payload" -> "Failed to extract data from page: "
      [] step = "entidad" -> "single positional indexer is out-of-bounds"
      [] step = "submit1" -> "Failed to submit payload: "
      [] step = "submit2" -> "Failed to submit payload: "
      [] step = "extract" -> "Failed to extract data from page: "
      [] step = "validate" -> "Error during data validation: "
      [] OTHER -> "Error parsing date: "

\* a cycle that ends before the classification ended on an error
CycleFailed == fpc \in CaseSteps \ {"classify"} /\ fpc' # fpc /\ fpc' \notin CaseSteps

\* C8: a step of a case's cycle that raises puts the case in Review only,
\* with the error's text, and the loop goes on with the next row; once the
\* loop is over every row of the input has been worked on.
C8_ErrorGoesToReview ==
    /\ [][CycleFailed =>
            /\ fpc' = "for"
            /\ idx' = idx + 1
            /\ Len(procesos_to_review') = Len(procesos_to_review) + 1
            /\ SubSeq(procesos_to_review', 1, Len(procesos_to_review))
                   = procesos_to_review
            /\ LET entry == procesos_to_review'[Len(procesos_to_review')]
               IN  /\ entry.key = procesos_df[idx].radicado
                   /\ entry.val.text[1] = StepErrorText(fpc)
            /\ procesos_to_notify' = procesos_to_notify
            /\ procesos_to_impulsar' = procesos_to_impulsar]_vars
    /\ [](fpc \in AfterLoop /\ idx > 0 =>
            /\ idx = Len(procesos_df) + 1
            /\ {flog[k].case : k \in DOMAIN flog} = DOMAIN procesos_df)

C8_Witness ==
    /\ fpc = "tally"
    /\ Len(procesos_df) = 2
    /\ Len(procesos_to_review) = 1
    /\ procesos_to_review[1].key = procesos_df[1].radicado
    /\ procesos_to_review[1].val.text[1] = "Failed to submit payload: "
    /\ Len(procesos_to_notify) = 1
    /\ procesos_to_notify[1].key = procesos_df[2].radicado

\* C9 (as claimed): a run that ends with a non-empty bucket, the report
\* having been written, has sent the email exactly once.
C9_EmailExactlyOnce ==
    (/\ fpc \in {"done", "raised"}
     /\ ~BucketsEmpty
     /\ flow_result.val # "Failed to update spreadsheet data")
        => /\ sheet_writes = 1
           /\ Len(emails) = 1

\* C10: a run whose loop ends with the three buckets empty writes no sheet,
\* sends no email and returns "Completed".
C10_NothingToReport ==
    (fpc \in AfterLoop /\ idx > 0 /\ BucketsEmpty)
        => /\ fpc \in {"tally", "return", "done"}
           /\ sheet_writes = 0
           /\ sheet = PriorSheet
           /\ emails = <<>>
           /\ fpc = "done" => flow_result = FlowReturned("Completed")
           /\ fpc = "return" => ENABLED ReturnCompleted

C10_Witness ==
    /\ fpc = "done"
    /\ Len(procesos_df) = 2
    /\ Len(flog) = 6
    /\ BucketsEmpty
    /\ sheet_writes = 0
    /\ emails = <<>>
    /\ flow_result = FlowReturned("Completed")

\* C11: a case whose cycle ends without error goes to Impulse when its
\* latest action is more than 180 days old, otherwise to Notify when the
\* action is at most 7 days old, otherwise to no bucket.
C11_StaleThenRecent ==
    [][(fpc = "classify" /\ fpc' # "classify"
            /\ Len(procesos_to_review') = Len(procesos_to_review))
        => LET v == data[FECHA_ACTUACION_FIELD]
               entry == [key |-> procesos_df[idx].radicado, val |-> data]
               stale == v.kind = "iso" /\ v.day < now - 180
               fresh == v.kind = "iso" /\ v.day >= now - 7
           IN  /\ procesos_to_review' = procesos_to_review
               /\ IF stale
                    THEN /\ procesos_to_impulsar'
                              = Append(procesos_to_impulsar, entry)
                         /\ procesos_to_notify' = procesos_to_notify
                    ELSE IF fresh
                      THEN /\ procesos_to_notify'
                                = Append(procesos_to_notify, entry)
                           /\ procesos_to_impulsar' = procesos_to_impulsar
                      ELSE /\ procesos_to_notify' = procesos_to_notify
                           /\ procesos_to_impulsar' = procesos_to_impulsar
       ]_vars

C11_Witness ==
    /\ fpc = "tally"
    /\ Len(procesos_to_impulsar) = 1
    /\ procesos_to_impulsar[1].val[FECHA_ACTUACION_FIELD] = Iso(-181)
    /\ Len(procesos_to_notify) = 1
    /\ procesos_to_notify[1].val[FECHA_ACTUACION_FIELD] = Iso(-7)
    /\ procesos_to_review = <<>>


-----------------------------------------------------------------------------
(* select_most_recent_proceso, get_proceso_by_radicacion, get_latest_actuacion *)

\* The candidate the description of select_most_recent_proceso names: the
\* only one; else the latest-dated among those with a timestamp, the
\* earliest-listed on a tie; else the first
MostRecent(ps) ==
    LET I == {i \in 1..Len(ps) : ps[i].fechaUltimaActuacion.kind # "empty"}
        day(i) == ps[i].fechaUltimaActuacion.day
    IN  IF Len(ps) = 1 \/ I = {} THEN ps[1]
        ELSE ps[CHOOSE i \in I :
                    \A j \in I : day(j) < day(i) \/ (day(j) = day(i) /\ i <= j)]

WellFormed(ps) ==
    \A i \in 1..Len(ps) : ps[i].fechaUltimaActuacion.kind \in {"empty", "iso"}

\* C12: on a non-empty list of candidates with well-formed timestamps the
\* selection returns the only candidate, else the candidate with the latest
\* timestamp among those that carry one (the earliest-listed on a tie), else
\* the first candidate.
C12_SelectsMostRecent ==
    (/\ lookup # ApiNone
     /\ lookup_data.has_procesos
     /\ lookup_data.procesos # <<>>
     /\ WellFormed(lookup_data.procesos))
        => lookup = ApiReturn(MostRecent(lookup_data.procesos))

\* C13: when the lookup request succeeds and its response has no 'procesos'
\* key or an empty 'procesos' list, get_proceso_by_radicacion raises the
\* not-found error and returns no process record.
C13_EmptyLookupIsNotFound ==
    [][(apc = "procesos"
            /\ (~lookup_data.has_procesos \/ lookup_data.procesos = <<>>))
        => /\ lookup' =
                 ApiRaise(WrapLookup(<<"No process found for radicacion">>))
           /\ lookup'.kind # "return"
           /\ apc' = "done"]_vars

C13_Witness ==
    /\ apc = "done"
    /\ lookup_data = [has_procesos |-> TRUE, procesos |-> <<>>]
    /\ lookup.kind = "raise"
    /\ lookup.text = WrapLookup(<<"No process found for radicacion">>)
    /\ alog = <<LookupEv>>

\* The kinds of the calls logged so far
Evs == [i \in 1..Len(alog) |-> alog[i].ev]

\* C14: get_latest_actuacion calls the lookup, then the delay, then the
\* fetch of the actions; the delay and the fetch happen only after a lookup
\* that returned a process, and the fetch asks for that process.  An empty
\* list of actions ends in the no-actions-found error; otherwise the result
\* is built from the first item of the list.
C14_LookupDelayFetch ==
    /\ [](/\ Evs \in {<<>>, <<"lookup">>, <<"lookup", "delay">>,
                      <<"lookup", "delay", "fetch">>}
          /\ Len(alog) >= 2 => lookup.kind = "return"
          /\ Len(alog) >= 2 =>
                 alog[2].arg \in MIN_DELAY_SECONDS..MAX_DELAY_SECONDS
          /\ Len(alog) = 3 => alog[3].arg = lookup.value[1].idProceso
          /\ lookup.kind = "raise" => (Len(alog) = 1 /\ api_result.kind = "raise")
          /\ api_result.kind = "return" =>
                 /\ Len(alog) = 3
                 /\ actuaciones # <<>>
                 /\ api_result.value[1] =
                        LatestRecord(actuaciones[1], lookup.value[1].idProceso)
                 /\ api_result.value[1].actuacion =
                        <<actuaciones[1].id, "actuacion">>
          /\ (apc = "done" /\ actuaciones # <<>>) => api_result.kind = "return")
    /\ [][(apc = "latest" /\ actuaciones = <<>>)
            => api_result' =
                 ApiRaise(WrapLatest(<<"No actuaciones found for proceso">>))]_vars

C14_Witness ==
    /\ apc = "done"
    /\ Evs = <<"lookup", "delay", "fetch">>
    /\ Len(actuaciones) = 2
    /\ actuaciones[1] # actuaciones[2]
    /\ api_result.kind = "return"
    /\ api_result.value[1].fecha_actuacion = <<actuaciones[1].id, "fechaActuacion">>
    /\ api_result.value[1].id_proceso = 2

-----------------------------------------------------------------------------
(* check_fecha, check_fecha_older_than_months *)

\* C15: for every well-formed timestamp, with or without a trailing Z and
\* with or without fractional seconds, check_fecha returns TRUE when the
\* timestamp is not before now - days_range and FALSE otherwise.
C15_RecentIffWithinDays ==
    (recent # <<>> /\ date_value.kind = "iso")
        => recent[1] = Ret(date_value.day >= date_now - date_days_range)

\* C16: for every well-formed timestamp check_fecha_older_than_months
\* returns TRUE when the timestamp is before now - months * 30 days and
\* FALSE otherwise (with months = 6: FALSE at 180 days, TRUE at 181).
C16_OlderIffBeyondMonths ==
    (older # <<>> /\ date_value.kind = "iso")
        => older[1] = Ret(date_value.day < date_now - date_months * 30)

\* The threshold of check_fecha_older_than_months on the timestamps it
\* parses to a naive datetime (no zone, or a fraction that cuts the zone off)
OlderThresholdWithoutZone ==
    (older # <<>> /\ date_value.kind = "iso"
        /\ (date_value.zone = "" \/ date_value.frac))
        => older[1] = Ret(date_value.day < date_now - date_months * 30)

-----------------------------------------------------------------------------
(* revisar_procesos: order, independence of the cycles, report phase *)

\* The entries of the bucket are those of rows of the input, in the order
\* of the rows
InInputOrder(bucket) ==
    \E f \in [1..Len(bucket) -> 1..Len(procesos_df)] :
        /\ \A i \in 1..Len(bucket) : procesos_df[f[i]].radicado = bucket[i].key
        /\ \A i, j \in 1..Len(bucket) : i < j => f[i] < f[j]

\* C17: the cases are processed one at a time in the order of the input:
\* every request is sent for the case of the current iteration, the case
\* numbers of the requests never decrease, a bucket grows only by one entry
\* for the current case (at the end of its cycle, possibly in the step of
\* the request that failed), after which the loop moves to the next case;
\* the entries of each bucket are in input order.
C17_InputOrder ==
    /\ [](/\ \A k \in 1..Len(flog) : flog[k].case <= idx
          /\ \A k \in 1..Len(flog) - 1 : flog[k].case <= flog[k + 1].case
          /\ Len(procesos_to_notify) + Len(procesos_to_impulsar)
                 + Len(procesos_to_review) <= idx
          /\ InInputOrder(procesos_to_notify)
          /\ InInputOrder(procesos_to_impulsar)
          /\ InInputOrder(procesos_to_review))
    /\ [][/\ flog' # flog =>
               /\ flog' \in {Append(flog, GetEv(idx)),
                             Append(flog, PostEv(idx, cookie))}
               /\ idx' # idx => bucketVars' # bucketVars
          /\ bucketVars' # bucketVars =>
               /\ fpc \in CaseSteps
               /\ idx' = idx + 1
               /\ flog' # flog => flog'[Len(flog')].case = idx
               /\ \E b \in 1..3 :
                     /\ Len(bucketVars'[b]) = Len(bucketVars[b]) + 1
                     /\ SubSeq(bucketVars'[b], 1, Len(bucketVars[b])) = bucketVars[b]
                     /\ bucketVars'[b][Len(bucketVars'[b])].key
                            = procesos_df[idx].radicado
                     /\ \A c \in 1..3 \ {b} : bucketVars'[c] = bucketVars[c]
         ]_vars

C17_Witness ==
    /\ fpc = "tally"
    /\ Len(procesos_df) = 2
    /\ procesos_df[1].radicado = "r2"
    /\ procesos_df[2].radicado = "r1"
    /\ Len(procesos_to_review) = 2
    /\ procesos_to_review[1].key = "r2"
    /\ procesos_to_review[2].key = "r1"
    /\ \E k \in 1..Len(flog) - 1 : flog[k].case = 1 /\ flog[k + 1].case = 2

\* The last request of the log is a POST
PostSent == flog' # flog /\ flog'[Len(flog')].op = "POST"

\* C18 (as claimed): the requests of a case depend only on the case and on
\* the answers of its own cycle: a POST carries the session cookie its own
\* page fetch received, or the Cookie the module is loaded with when that
\* fetch received none.
C18_CyclesIndependent ==
    [][PostSent =>
         flog'[Len(flog')].cookie =
             IF session_id # "" THEN session_id ELSE InitialCookie]_vars

\* C18 (amended): the Cookie header of RAMA_HEADERS is shared by the cycles
\* of a run.  It changes only when a page fetch receives a session cookie,
\* and every POST carries its current value: the cookie of the latest fetch
\* of the run that received one, of an earlier case if need be.  The payload
\* of a case comes from its own row and its own page, and the entry a cycle
\* adds to a bucket carries its own case number and its own data.
C18_OnlyCookieShared ==
    /\ [](fpc \in {"entidad", "submit1", "submit2"} =>
              /\ payload.proceso = Proceso.radicado
              /\ payload.ciudad = Prefix5(Proceso.radicado)
              /\ payload.session_id = soup[SESSION_ID_FIELD])
    /\ [][/\ PostSent => flog'[Len(flog')] = PostEv(idx, cookie)
          /\ (fpc = "fetch" /\ fpc' = "payload") =>
                 cookie' = IF session_id' # "" THEN session_id' ELSE cookie
          /\ cookie' # cookie => (fpc = "fetch" /\ fpc' = "payload")
          /\ (fpc = "classify" /\ <<procesos_to_notify, procesos_to_impulsar>>'
                                    # <<procesos_to_notify, procesos_to_impulsar>>)
                => \E b \in {procesos_to_notify', procesos_to_impulsar'} :
                      /\ b # <<>>
                      /\ b[Len(b)] = [key |-> Proceso.radicado, val |-> data]
                      /\ data = ExtractDataFromPage(soup, DATA_SELECTORS).result
         ]_vars

C18_Witness ==
    /\ idx = 2
    /\ fpc = "extract"
    /\ session_id = ""
    /\ cookie = "s1"
    /\ flog[Len(flog)] = PostEv(2, "s1")
    /\ \E k \in 1..Len(flog) : flog[k] = PostEv(1, "s1")

ReportSteps == {"report", "update", "write", "notify"}

\* C19: an error of the report phase ends the run with that error: the
\* buckets are left as the loop filled them (no Review entry), nothing runs
\* after the failing step, the email step is reached only with the sheet
\* written, and a failed spreadsheet update leaves no email sent.
C19_ReportErrorsPropagate ==
    /\ [](/\ fpc = "notify" => sheet = WrittenSheet(summary_df)
          /\ emails # <<>> => sheet = WrittenSheet(summary_df)
          /\ flow_result = FlowRaised("Failed to update spreadsheet data")
                => (fpc = "raised" /\ emails = <<>>
                       /\ sheet \in {PriorSheet, ClearedSheet}))
    /\ [][/\ fpc # "raised"
          /\ fpc \in AfterLoop => bucketVars' = bucketVars
          /\ (fpc \in ReportSteps /\ fpc' = "raised")
                => /\ flow_result'.kind = "raise"
                   /\ sheet' = sheet
         ]_vars

C19_Witness ==
    /\ fpc = "raised"
    /\ flow_result = FlowRaised("Failed to update spreadsheet data")
    /\ sheet = ClearedSheet
    /\ summary_df.notify # <<>>
    /\ procesos_to_review = <<>>
    /\ emails = <<>>

\* C20: update_spreadsheet_data is called at most once in a run; it clears
\* the sheet and then writes, and once it has returned the sheet holds the
\* report generated from the three buckets and nothing else.
C20_SheetReplacedOnce ==
    /\ [](/\ sheet_writes <= 1
          /\ sheet.state = "written" =>
                /\ sheet_writes = 1
                /\ sheet = WrittenSheet(generate_summary_report(
                               procesos_to_notify, procesos_to_impulsar,
                               procesos_to_review))
          /\ fpc \in {"notify", "return", "done"} =>
                sheet.state = (IF sheet_writes = 1 THEN "written" ELSE "prior"))
    /\ [][sheet' # sheet =>
            \/ fpc = "update" /\ sheet = PriorSheet /\ sheet' = ClearedSheet
            \/ fpc = "write" /\ sheet = ClearedSheet
                  /\ sheet' = WrittenSheet(summary_df)]_vars

C20_Witness ==
    /\ fpc = "notify"
    /\ sheet_writes = 1
    /\ sheet = WrittenSheet(summary_df)
    /\ Len(sheet.content.notify) = 1
    /\ Len(sheet.content.review) = 1

-----------------------------------------------------------------------------
(* make_api_request_with_retry: termination and the fall-through failure *)

\* C21: make_api_request_with_retry ends (returns or raises) after at most
\* max_retries calls of request_func (none when max_retries is not
\* positive); retry_count only ever grows by one, at the end of an iteration
\* that neither returned nor raised, and every such iteration grows it.
C21_TerminatesWithinBudget ==
    /\ <>(rpc = "done" /\ outcome # Running)
    /\ [](/\ calls <= (IF max_retries > 0 THEN max_retries ELSE 0)
          /\ calls <= retry_count + 1
          /\ retry_count <= (IF max_retries > 0 THEN max_retries ELSE 0)
          /\ rpc = "done" => outcome # Running)
    /\ [][/\ retry_count' # retry_count =>
               (retry_count' = retry_count + 1 /\ rpc \in {"status", "except"})
          /\ (rpc # "while" /\ rpc' = "while") =>
               retry_count' = retry_count + 1]_vars

C21_Witness ==
    /\ rpc = "done"
    /\ max_retries = MaxRetries
    /\ calls = MaxRetries
    /\ retry_count = MaxRetries
    /\ outcome.kind = "raise"

\* The failures raised inside the loop (lines 109, 112, 120, 132)
LoopFailures ==
    {"Rate limit exceeded", "Resource not found (404)", "Server error",
     "Request failed"}

\* C22: the failure raised after the loop (line 135) occurs only for
\* max_retries <= 0, before any call of request_func and with
\* last_exception still None; for max_retries >= 1 every failure is one of
\* those raised inside the loop, after at least one call.
C22_FallThroughOnlyWithoutBudget ==
    /\ outcome.text = "Failed after retries" =>
          /\ max_retries <= 0
          /\ calls = 0
          /\ trace = <<>>
          /\ last_exception = None
          /\ outcome.cause = None
    /\ (max_retries >= 1 /\ outcome.kind = "raise") =>
          /\ outcome.text \in LoopFailures
          /\ calls >= 1
    /\ (max_retries <= 0 /\ rpc = "done") =>
          outcome = Raised("Failed after retries", 0, max_retries, None)

C22_Witness ==
    /\ rpc = "done"
    /\ max_retries = 0
    /\ outcome.text = "Failed after retries"
    /\ calls = 0

-----------------------------------------------------------------------------
(* The two date checks together *)

\* C23: with the thresholds of the workflow (7 days, 6 months) and one
\* reference time, check_fecha and check_fecha_older_than_months never both
\* return TRUE for a timestamp, and both return FALSE for an empty one.
C23_NeverRecentAndStale ==
    (/\ recent # <<>>
     /\ older # <<>>
     /\ date_days_range = DAYS_RANGE
     /\ date_months = 6)
        => /\ ~(recent[1] = Ret(TRUE) /\ older[1] = Ret(TRUE))
           /\ date_value = Empty =>
                  (recent[1] = Ret(FALSE) /\ older[1] = Ret(FALSE))

C23_Witness ==
    /\ date_value = Iso(-181)
    /\ date_now = 0
    /\ date_days_range = DAYS_RANGE
    /\ date_months = 6
    /\ recent = <<Ret(FALSE)>>
    /\ older = <<Ret(TRUE)>>

-----------------------------------------------------------------------------
(* update_spreadsheet_data is not atomic *)

\* C24: when the clear call of update_spreadsheet_data has succeeded and
\* the update call fails, the function raises and the sheet stays empty:
\* it holds neither its prior content nor the new report.
C24_FailedWriteLeavesSheetEmpty ==
    /\ [](fpc = "write" => sheet = ClearedSheet)
    /\ [][(fpc = "write" /\ fpc' = "raised")
            => /\ flow_result' = FlowRaised("Failed to update spreadsheet data")
               /\ sheet' = ClearedSheet
               /\ sheet' # PriorSheet
               /\ sheet' # WrittenSheet(summary_df)]_vars
    /\ []((fpc = "raised" /\ sheet.state = "cleared")
            => /\ flow_result = FlowRaised("Failed to update spreadsheet data")
               /\ sheet.content = NoSummary
               /\ summary_df # NoSummary)

C24_Witness ==
    /\ fpc = "raised"
    /\ sheet = ClearedSheet
    /\ sheet_writes = 1
    /\ flow_result = FlowRaised("Failed to update spreadsheet data")
    /\ summary_df.review # <<>>

-----------------------------------------------------------------------------
(* extraer_entidades *)

\* The values of the first n city options that are not placeholders
CitiesToVisit(n) ==
    LET kept == SelectSeq(SubSeq(ciudades, 1, n),
                          LAMBDA c : ~Placeholder(c.value))
    IN  [i \in 1..Len(kept) |-> kept[i].value]

\* The cities posted so far
Posted == [i \in 1..Len(elog) |-> elog[i].ciudad]

\* The kept entities of the first n answers, one after the other
RECURSIVE Collected(_)
Collected(n) ==
    IF n = 0 THEN <<>>
    ELSE Collected(n - 1) \o KeptEntidades(elog[n].entidades)

SomePostFailed == \E i \in 1..Len(elog) : elog[i].failed

\* C25: a city whose POST fails ends extraer_entidades with that error: no
\* later city is posted and the Entidades sheet is not touched.  The cities
\* are posted in page order without the placeholders ("0", ""), and the
\* sheet is cleared and written only after every such city was posted with
\* success, with the kept entities of all their answers in that order.
C25_CityFailureAbortsRun ==
    /\ [](/\ SomePostFailed =>
                /\ epc = "raised"
                /\ entidades_result = EntRaised("Failed to submit payload")
                /\ elog[Len(elog)].failed
                /\ Posted = CitiesToVisit(ciudad_idx)
                /\ entidades_sheet = EntPriorSheet
          /\ ~SomePostFailed =>
                /\ ciudad_idx > 0 => Posted = CitiesToVisit(ciudad_idx - 1)
                /\ all_entidades_list = Collected(Len(elog))
          /\ entidades_sheet # EntPriorSheet =>
                /\ ~SomePostFailed
                /\ Posted = CitiesToVisit(Len(ciudades))
          /\ entidades_sheet.state = "written" =>
                entidades_sheet.rows = Collected(Len(elog)))
    /\ [][epc # "raised"]_vars

C25_Witness ==
    /\ epc = "raised"
    /\ Len(ciudades) = 2
    /\ ciudades[1].value = "05001"
    /\ ciudades[2].value = "11001"
    /\ Len(elog) = 1
    /\ elog[1].failed
    /\ entidades_sheet = EntPriorSheet

====
